---- MODULE Spec2Model ----
(***************************************************************************)
(* State-machine model of keras/HIGGS_train.ipynb: a notebook that         *)
(* downloads HIGGS.h5, builds a shallow and a deep Keras classifier,       *)
(* splits the data, fits and pickles a StandardScaler, and fits and saves  *)
(* both models.  Rows of the dataset are identified by their index 1..n;   *)
(* fitted objects carry the set of rows they were computed from.           *)
(***************************************************************************)
EXTENDS Integers, Sequences, FiniteSets, TLC

VARIABLES
    pc,                  \* statement the current execution is at
    loop_i,              \* position of the training loop in its zip(...)
    fs,                  \* the working directory: file name -> content
    random_state,        \* the permutation the seeded generator yields
    inputs,              \* np.array(file_["features"]): [loaded, n, d]
    targets,             \* np.array(file_["targets"]): [loaded, n]
    inputs_train, inputs_test, targets_train, targets_test,
    preprocessing_input, \* the StandardScaler object
    model,               \* "shallow" / "deep" -> the Sequential object
    executed,            \* statements this execution has run, in order
    outcome              \* "running", "completed" or "error"

vars == << pc, loop_i, fs, random_state, inputs, targets,
           inputs_train, inputs_test, targets_train, targets_test,
           preprocessing_input, model, executed, outcome >>

(***************************************************************************)
(* Bounds of the model.                                                    *)
(***************************************************************************)
LargeRows == 1400
\* the (rows, columns) shapes a downloaded dataset may have
DatasetShapes ==
    {<< 0, 28 >>, << 1, 3 >>, << 9, 28 >>, << 10, 3 >>, << 20, 28 >>, << 45, 3 >>,
     << LargeRows, 28 >>}
PermKinds == {"identity", "reverse", "rotate"}

(***************************************************************************)
(* Program constants.                                                      *)
(***************************************************************************)
batch_size == 100
epochs == 10
ShallowUnits == 1000
DeepUnits == 300
DeepHidden == 5
\* test_size = 0.90 and validation_split = 0.25 as exact fractions
TestSizeNum == 9
TestSizeDen == 10
ValSplitNum == 1
ValSplitDen == 4
\* "Train on 825000 samples, validate on 275000 samples"
RecordedTrainRows == 1100000

DATASET == "HIGGS.h5"
PICKLE == "HIGGS_preprocessing.pickle"
ModelNames == << "shallow", "deep" >>
FileNames == << "HIGGS_shallow.h5", "HIGGS_deep.h5" >>
FILES == {DATASET, PICKLE, FileNames[1], FileNames[2]}

(***************************************************************************)
(* Pure helpers.                                                           *)
(***************************************************************************)
Range(s) == {s[i] : i \in 1..Len(s)}

Min(a, b) == IF a <= b THEN a ELSE b

\* the permutation of 1..n a seeded shuffle yields
Permutation(kind, n) ==
    [i \in 1..n |->
        CASE kind = "identity" -> i
          [] kind = "reverse"  -> n + 1 - i
          [] OTHER             -> (i % n) + 1]

\* a[index_array]: numpy fancy indexing
Take(a, idx) == [i \in 1..Len(idx) |-> a[idx[i]]]

\* a[lo:hi] with 0-based half-open bounds, as Python slices
Slice(a, lo, hi) == [i \in 1..(hi - lo) |-> a[lo + i]]

CeilDiv(a, b) == (a + b - 1) \div b

(***************************************************************************)
(* The objects of the notebook.                                            *)
(***************************************************************************)
NoFile == [state |-> "absent", this_run |-> FALSE]

\* StandardScaler(): not fitted
StandardScaler == [fitted |-> FALSE, n_fits |-> 0, seen |-> {}]

NoFit == [started |-> FALSE, x |-> [rows |-> << >>, scaler |-> StandardScaler],
          y |-> << >>, split_at |-> 0, epoch_batches |-> << >>]

InitialWeights == [updates |-> 0, deps |-> {}]

\* Sequential(): no layers, not compiled
Sequential == [layers |-> << >>, compiled |-> FALSE, weights |-> InitialWeights,
               epochs_done |-> 0, fit |-> NoFit]

\* kernel (fan_in x units) plus bias (units)
DenseParamsNoBias(fan_in, units) == fan_in * units

DenseParams(fan_in, units) == fan_in * units + units

\* model.add(Dense(units, activation=..., [input_dim=...]))
AddDense(m, units, activation, input_dim) ==
    LET fan_in == IF Len(m.layers) = 0 THEN input_dim
                  ELSE m.layers[Len(m.layers)].units
    IN [m EXCEPT !.layers = Append(@, [units |-> units, activation |-> activation,
                                        fan_in |-> fan_in,
                                        params |-> DenseParams(fan_in, units)])]

RECURSIVE AddHidden(_, _, _, _, _)
AddHidden(m, k, units, activation, input_dim) ==
    IF k = 0 THEN m
    ELSE AddHidden(AddDense(m, units, activation, input_dim), k - 1, units,
                   activation, input_dim)

model_shallow(d) ==
    AddDense(AddDense(Sequential, ShallowUnits, "tanh", d), 1, "sigmoid", d)

model_deep(d) ==
    AddDense(AddHidden(Sequential, DeepHidden, DeepUnits, "relu", d), 1, "sigmoid", d)

RECURSIVE SumParams(_, _)
SumParams(layers, k) ==
    IF k = 0 THEN 0 ELSE layers[k].params + SumParams(layers, k - 1)

\* model.summary(): "Total params"
count_params(m) == SumParams(m.layers, Len(m.layers))

(***************************************************************************)
(* train_test_split(a, test_size=0.90, random_state=1234, shuffle=True)    *)
(***************************************************************************)
\* n_test = ceil(test_size * n_samples); the double product 0.9 * n rounds to
\* the exact 9n/10 whenever that is an integer, so the ceiling is the exact one
n_test_floor(n) == (TestSizeNum * n) \div TestSizeDen

n_test_of(n) == CeilDiv(TestSizeNum * n, TestSizeDen)

n_train_of(n) == n - n_test_of(n)

ind_test(n) == Slice(Permutation(random_state, n), 0, n_test_of(n))

ind_train_from_start(n) ==
    Slice(Permutation(random_state, n), 0, n_train_of(n))

ind_train(n) ==
    Slice(Permutation(random_state, n), n_test_of(n), n_test_of(n) + n_train_of(n))

train_test_split(a) ==
    [train |-> Take(a, ind_train(Len(a))), test |-> Take(a, ind_test(Len(a)))]

(***************************************************************************)
(* StandardScaler.fit / transform                                          *)
(***************************************************************************)
ScalerFitAllRows(sc, X) ==
    [fitted |-> TRUE, n_fits |-> sc.n_fits + 1, seen |-> 1..inputs.n]

ScalerFit(sc, X) ==
    [fitted |-> TRUE, n_fits |-> sc.n_fits + 1, seen |-> Range(X)]

ScalerTransform(sc, X) == [rows |-> X, scaler |-> sc]

(***************************************************************************)
(* Keras fit: validation split, batches, one epoch                         *)
(***************************************************************************)
\* int(len(x) * (1. - validation_split)); 0.75 * n is exact in doubles
split_at_of(n) == (n * (ValSplitDen - ValSplitNum)) \div ValSplitDen

\* make_batches(size, batch_size): 0-based half-open (start, end) pairs
make_batches_drop_last(size, bs) ==
    [i \in 1..(size \div bs) |-> << (i - 1) * bs, i * bs >>]

make_batches(size, bs) ==
    [i \in 1..CeilDiv(size, bs) |-> << (i - 1) * bs, Min(size, i * bs) >>]

TrainRows(f) == Slice(f.x.rows, 0, f.split_at)

ValRows(f) == Slice(f.x.rows, f.split_at, Len(f.x.rows))

\* the rows of each batch of one epoch, the index array shuffled by `kind`
EpochBatches(f, kind) ==
    LET index_array == Permutation(kind, f.split_at)
        batches == make_batches(f.split_at, batch_size)
    IN [b \in 1..Len(batches) |->
            Take(TrainRows(f), Slice(index_array, batches[b][1], batches[b][2]))]

RECURSIVE BatchDeps(_, _)
BatchDeps(bs, k) ==
    IF k = 0 THEN {} ELSE Range(bs[k]) \cup BatchDeps(bs, k - 1)

\* the weights after the first k batches of an epoch
TrainOnBatches(w, f, bs, k) ==
    [updates |-> w.updates + k,
     deps |-> IF k = 0 THEN w.deps
              ELSE w.deps \cup BatchDeps(bs, k) \cup f.x.scaler.seen]

(***************************************************************************)
(* Initial state: a fresh kernel in a directory without any of the files.  *)
(***************************************************************************)
FreshKernel ==
    /\ pc = "download"
    /\ loop_i = 1
    /\ inputs = [loaded |-> FALSE, n |-> 0, d |-> 0]
    /\ targets = [loaded |-> FALSE, n |-> 0]
    /\ inputs_train = << >>
    /\ inputs_test = << >>
    /\ targets_train = << >>
    /\ targets_test = << >>
    /\ preprocessing_input = StandardScaler
    /\ model = [m \in Range(ModelNames) |-> Sequential]
    /\ executed = << >>
    /\ outcome = "running"

Init ==
    /\ FreshKernel
    /\ fs = [f \in FILES |-> NoFile]
    /\ random_state \in PermKinds

RaiseSwallowed(step) ==
    /\ pc' = "done"
    /\ outcome' = "completed"
    /\ executed' = Append(executed, step)

\* an unhandled exception in the statement at pc: the run stops there
Raise(step) ==
    /\ pc' = "error"
    /\ outcome' = "error"
    /\ executed' = Append(executed, step)

Goto(step, next) ==
    /\ pc' = next
    /\ executed' = Append(executed, step)
    /\ outcome' = IF next = "done" THEN "completed" ELSE "running"

(***************************************************************************)
(* if not os.path.exists("HIGGS.h5"): subprocess.call("wget ...")          *)
(* The return code of wget is not inspected.                               *)
(***************************************************************************)
ExistsNever(f) == FALSE

Exists(f) == fs[f].state # "absent"

DownloadSkip ==
    /\ pc = "download"
    /\ Exists(DATASET)
    /\ Goto("download_skipped", "load")
    /\ UNCHANGED << loop_i, fs, random_state, inputs, targets, inputs_train,
                    inputs_test, targets_train, targets_test,
                    preprocessing_input, model >>

Download ==
    /\ pc = "download"
    /\ ~Exists(DATASET)
    /\ \/ \E shape \in DatasetShapes :
            fs' = [fs EXCEPT ![DATASET] =
                      [state |-> "complete", this_run |-> TRUE,
                       n |-> shape[1], d |-> shape[2]]]
       \/ fs' = [fs EXCEPT ![DATASET] = [state |-> "partial", this_run |-> TRUE]]
       \/ fs' = fs
    /\ Goto("download", "load")
    /\ UNCHANGED << loop_i, random_state, inputs, targets, inputs_train,
                    inputs_test, targets_train, targets_test,
                    preprocessing_input, model >>

(***************************************************************************)
(* file_ = h5py.File("HIGGS.h5"); inputs = ...; targets = ...              *)
(***************************************************************************)
Load ==
    /\ pc = "load"
    /\ fs[DATASET].state = "complete"
    /\ inputs' = [loaded |-> TRUE, n |-> fs[DATASET].n, d |-> fs[DATASET].d]
    /\ targets' = [loaded |-> TRUE, n |-> fs[DATASET].n]
    /\ Goto("load", "build_shallow")
    /\ UNCHANGED << loop_i, fs, random_state, inputs_train, inputs_test,
                    targets_train, targets_test, preprocessing_input, model >>

\* no file: h5py raises, or (default mode "a") creates an empty HDF5 file
\* and the lookup of "features" raises; a truncated file does not open
LoadFail ==
    /\ pc = "load"
    /\ \/ /\ fs[DATASET].state = "absent"
          /\ \/ fs' = fs
             \/ fs' = [fs EXCEPT ![DATASET] =
                          [state |-> "empty_hdf5", this_run |-> TRUE]]
       \/ /\ fs[DATASET].state # "absent"
          /\ fs' = fs
    /\ Raise("load")
    /\ UNCHANGED << loop_i, random_state, inputs, targets, inputs_train,
                    inputs_test, targets_train, targets_test,
                    preprocessing_input, model >>

(***************************************************************************)
(* model_shallow = Sequential(); ...   model_deep = Sequential(); ...      *)
(***************************************************************************)
BuildShallow ==
    /\ pc = "build_shallow"
    /\ model' = [model EXCEPT !["shallow"] = model_shallow(inputs.d)]
    /\ Goto("build_shallow", "build_deep")
    /\ UNCHANGED << loop_i, fs, random_state, inputs, targets, inputs_train,
                    inputs_test, targets_train, targets_test, preprocessing_input >>

BuildDeepNoCompile ==
    /\ pc = "build_deep"
    /\ model' = [model EXCEPT !["deep"] = model_deep(inputs.d)]
    /\ Goto("build_deep", "split")
    /\ UNCHANGED << loop_i, fs, random_state, inputs, targets, inputs_train,
                    inputs_test, targets_train, targets_test, preprocessing_input >>

BuildDeep ==
    /\ pc = "build_deep"
    /\ model' = [model EXCEPT !["deep"] = model_deep(inputs.d)]
    /\ Goto("build_deep", "compile")
    /\ UNCHANGED << loop_i, fs, random_state, inputs, targets, inputs_train,
                    inputs_test, targets_train, targets_test, preprocessing_input >>

\* for model in [model_shallow, model_deep]: model.compile(...)
Compile ==
    /\ pc = "compile"
    /\ model' = [m \in DOMAIN model |-> [model[m] EXCEPT !.compiled = TRUE]]
    /\ Goto("compile", "split")
    /\ UNCHANGED << loop_i, fs, random_state, inputs, targets, inputs_train,
                    inputs_test, targets_train, targets_test, preprocessing_input >>

(***************************************************************************)
(* inputs_train, inputs_test, targets_train, targets_test =                *)
(*     train_test_split(inputs, targets, test_size=0.90, ...)              *)
(***************************************************************************)
Rows(n) == [i \in 1..n |-> i]

Split ==
    /\ pc = "split"
    /\ inputs_train' = train_test_split(Rows(inputs.n)).train
    /\ inputs_test' = train_test_split(Rows(inputs.n)).test
    /\ targets_train' = train_test_split(Rows(targets.n)).train
    /\ targets_test' = train_test_split(Rows(targets.n)).test
    /\ Goto("split", "scaler_fit")
    /\ UNCHANGED << loop_i, fs, random_state, inputs, targets,
                    preprocessing_input, model >>

(***************************************************************************)
(* preprocessing_input = StandardScaler()                                  *)
(* preprocessing_input.fit(inputs_train)                                   *)
(* pickle.dump(preprocessing_input, open("HIGGS_preprocessing.pickle","wb"))*)
(***************************************************************************)
FitScaler ==
    /\ pc = "scaler_fit"
    /\ Len(inputs_train) > 0
    /\ preprocessing_input' = ScalerFit(StandardScaler, inputs_train)
    /\ Goto("scaler_fit", "pickle")
    /\ UNCHANGED << loop_i, fs, random_state, inputs, targets, inputs_train,
                    inputs_test, targets_train, targets_test, model >>

PickleDump ==
    /\ pc = "pickle"
    /\ fs' = [fs EXCEPT ![PICKLE] =
                 [state |-> "complete", this_run |-> TRUE, obj |-> preprocessing_input]]
    /\ Goto("pickle", "fit")
    /\ UNCHANGED << loop_i, random_state, inputs, targets, inputs_train,
                    inputs_test, targets_train, targets_test,
                    preprocessing_input, model >>

\* open(..., "wb") truncates the file before anything is written
PickleFail ==
    /\ pc = "pickle"
    /\ \/ fs' = fs
       \/ fs' = [fs EXCEPT ![PICKLE] = [state |-> "partial", this_run |-> TRUE]]
    /\ Raise("pickle")
    /\ UNCHANGED << loop_i, random_state, inputs, targets, inputs_train,
                    inputs_test, targets_train, targets_test,
                    preprocessing_input, model >>

(***************************************************************************)
(* for model, name in zip([model_shallow, model_deep],                     *)
(*                        ["HIGGS_shallow.h5", "HIGGS_deep.h5"]):          *)
(*     model.fit(preprocessing_input.transform(inputs_train),              *)
(*               targets_train, batch_size=100, epochs=10,                 *)
(*               validation_split=0.25)                                    *)
(*     model.save(name)                                                    *)
(***************************************************************************)
LoopModelFirst == ModelNames[1]

LoopModel == ModelNames[loop_i]

LoopFileSwapped == FileNames[Len(FileNames) + 1 - loop_i]

LoopFile == FileNames[loop_i]

\* the arguments are evaluated and the validation rows are set apart
FitBegin ==
    /\ pc = "fit"
    /\ preprocessing_input.fitted
    /\ model[LoopModel].compiled
    /\ LET x == ScalerTransform(preprocessing_input, inputs_train)
       IN model' = [model EXCEPT ![LoopModel].fit =
                       [started |-> TRUE, x |-> x, y |-> targets_train,
                        split_at |-> split_at_of(Len(x.rows)),
                        epoch_batches |-> << >>]]
    /\ Goto("fit", "fit_epoch")
    /\ UNCHANGED << loop_i, fs, random_state, inputs, targets, inputs_train,
                    inputs_test, targets_train, targets_test, preprocessing_input >>

\* one pass over the training rows, shuffled, in batches
FitEpoch ==
    /\ pc = "fit_epoch"
    /\ model[LoopModel].epochs_done < epochs
    /\ \E kind \in PermKinds :
         LET m == model[LoopModel]
             bs == EpochBatches(m.fit, kind)
         IN model' = [model EXCEPT
                         ![LoopModel].weights = TrainOnBatches(m.weights, m.fit, bs, Len(bs)),
                         ![LoopModel].epochs_done = @ + 1,
                         ![LoopModel].fit.epoch_batches = bs]
    /\ Goto("fit_epoch",
            IF model[LoopModel].epochs_done + 1 = epochs THEN "save" ELSE "fit_epoch")
    /\ UNCHANGED << loop_i, fs, random_state, inputs, targets, inputs_train,
                    inputs_test, targets_train, targets_test, preprocessing_input >>

\* an exception inside an epoch: only the first k batches were applied
FitFail ==
    /\ pc = "fit_epoch"
    /\ \E kind \in PermKinds :
         LET m == model[LoopModel]
             bs == EpochBatches(m.fit, kind)
         IN \E k \in 0..(IF Len(bs) = 0 THEN 0 ELSE Len(bs) - 1) :
              model' = [model EXCEPT
                           ![LoopModel].weights = TrainOnBatches(m.weights, m.fit, bs, k)]
    /\ Raise("fit_epoch")
    /\ UNCHANGED << loop_i, fs, random_state, inputs, targets, inputs_train,
                    inputs_test, targets_train, targets_test, preprocessing_input >>

SavedModel(name) ==
    [state |-> "complete", this_run |-> TRUE, name |-> name,
     layers |-> model[name].layers, weights |-> model[name].weights,
     epochs_done |-> model[name].epochs_done]

Save ==
    /\ pc = "save"
    /\ fs' = [fs EXCEPT ![LoopFile] = SavedModel(LoopModel)]
    /\ IF loop_i < Len(ModelNames)
       THEN loop_i' = loop_i + 1 /\ Goto("save", "fit")
       ELSE loop_i' = loop_i /\ Goto("save", "done")
    /\ UNCHANGED << random_state, inputs, targets, inputs_train, inputs_test,
                    targets_train, targets_test, preprocessing_input, model >>

\* the file is opened for writing (truncated) before the model is written
SaveFail ==
    /\ pc = "save"
    /\ \/ fs' = fs
       \/ fs' = [fs EXCEPT ![LoopFile] = [state |-> "partial", this_run |-> TRUE]]
    /\ Raise("save")
    /\ UNCHANGED << loop_i, random_state, inputs, targets, inputs_train,
                    inputs_test, targets_train, targets_test,
                    preprocessing_input, model >>

\* any other statement raising (out of memory, interrupt, empty array, ...)
StepFail ==
    /\ pc \in {"build_shallow", "build_deep", "compile", "split", "scaler_fit", "fit"}
    /\ Raise(pc)
    /\ UNCHANGED << loop_i, fs, random_state, inputs, targets, inputs_train,
                    inputs_test, targets_train, targets_test,
                    preprocessing_input, model >>

\* the notebook is run again from a fresh kernel in the same directory
Restart ==
    /\ pc \in {"done", "error"}
    /\ pc' = "download"
    /\ loop_i' = 1
    /\ inputs' = [loaded |-> FALSE, n |-> 0, d |-> 0]
    /\ targets' = [loaded |-> FALSE, n |-> 0]
    /\ inputs_train' = << >>
    /\ inputs_test' = << >>
    /\ targets_train' = << >>
    /\ targets_test' = << >>
    /\ preprocessing_input' = StandardScaler
    /\ model' = [m \in Range(ModelNames) |-> Sequential]
    /\ executed' = << >>
    /\ outcome' = "running"
    /\ fs' = [f \in FILES |-> [fs[f] EXCEPT !.this_run = FALSE]]
    /\ UNCHANGED random_state

Next ==
    \/ DownloadSkip
    \/ Download
    \/ Load
    \/ LoadFail
    \/ BuildShallow
    \/ BuildDeep
    \/ Compile
    \/ Split
    \/ FitScaler
    \/ PickleDump
    \/ PickleFail
    \/ FitBegin
    \/ FitEpoch
    \/ FitFail
    \/ Save
    \/ SaveFail
    \/ StepFail
    \/ Restart

Spec == Init /\ [][Next]_vars

(***************************************************************************)
(* Vocabulary of the properties.                                           *)
(***************************************************************************)
\* the statement `step` has run to its end in this execution
Completed(step) ==
    \E i \in 1..Len(executed) :
        executed[i] = step /\ (i < Len(executed) \/ outcome # "error")

\* no row of S is a held-out row (and no held-out row is listed twice):
\* counted, which is cheaper than intersecting
Unseen(S) ==
    Cardinality(S \cup Range(inputs_test)) = Cardinality(S) + Len(inputs_test)

WrittenThisRun(f) == fs[f].state = "complete" /\ fs[f].this_run

ARTIFACTS == {PICKLE, FileNames[1], FileNames[2]}

NumBatches(m) == CeilDiv(model[m].fit.split_at, batch_size)

RECURSIVE SumLen(_, _)
SumLen(bs, k) == IF k = 0 THEN 0 ELSE Len(bs[k]) + SumLen(bs, k - 1)

(***************************************************************************)
(* C1: a completed run has written all three artifacts; each model file    *)
(* written by this run holds the model it is named after (shallow in       *)
(* HIGGS_shallow.h5, deep in HIGGS_deep.h5), and is written only after     *)
(* that model's fit has run all 10 epochs, so it holds the weights after   *)
(* every batch of every epoch.                                             *)
(***************************************************************************)
C1_ArtifactsAfterFullFit ==
    /\ outcome = "completed" => \A f \in ARTIFACTS : WrittenThisRun(f)
    /\ \A i \in 1..Len(FileNames) :
         LET f == fs[FileNames[i]]
             m == ModelNames[i]
         IN /\ f.this_run => model[m].fit.started /\ model[m].epochs_done = epochs
            /\ WrittenThisRun(FileNames[i]) =>
                 /\ f.name = m
                 /\ f.layers = model[m].layers
                 /\ f.epochs_done = 10
                 /\ f.weights = model[m].weights
                 /\ f.weights.updates = 10 * NumBatches(m)

C1_Witness ==
    /\ outcome = "completed"
    /\ fs[FileNames[1]].weights.updates > 10
    /\ fs[FileNames[2]].weights.updates > 10
    /\ Len(fs[FileNames[1]].layers) < Len(fs[FileNames[2]].layers)

(***************************************************************************)
(* C2: the standardizer is fitted exactly once, on exactly the rows of the *)
(* training subset (all of them, no held-out row); the pickle this run     *)
(* writes is written after the fit and holds the very state that           *)
(* transform uses when the shallow and the deep model are trained.         *)
(***************************************************************************)
C2_ScalerFittedOnceOnTrain ==
    /\ preprocessing_input.n_fits <= 1
    /\ preprocessing_input.fitted <=> Completed("scaler_fit")
    /\ preprocessing_input.fitted =>
         /\ preprocessing_input.n_fits = 1
         /\ preprocessing_input.seen = Range(inputs_train)
         /\ Cardinality(preprocessing_input.seen) = Len(inputs_train)
         /\ Unseen(preprocessing_input.seen)
    /\ fs[PICKLE].this_run => preprocessing_input.fitted
    /\ WrittenThisRun(PICKLE) =>
         /\ fs[PICKLE].obj.fitted
         /\ fs[PICKLE].obj = preprocessing_input
    /\ \A m \in Range(ModelNames) :
         model[m].fit.started =>
            /\ WrittenThisRun(PICKLE)
            /\ model[m].fit.x.scaler = fs[PICKLE].obj

C2_Witness ==
    /\ outcome = "completed"
    /\ model["deep"].fit.x.scaler = fs[PICKLE].obj
    /\ Cardinality(fs[PICKLE].obj.seen) > model["deep"].fit.split_at
    /\ model["deep"].fit.split_at > 0
    /\ Len(inputs_test) > 0

(***************************************************************************)
(* C3: train_test_split partitions the N rows into disjoint training and   *)
(* held-out subsets covering all rows, the held-out subset having          *)
(* ceil(0.9 N) rows (the least k with 10 k >= 9 N) and the training        *)
(* subset the remaining rows; features and labels are split by the same    *)
(* index assignment; a 11,000,000-row dataset gives the 1,100,000          *)
(* training rows of the recorded run.                                      *)
(***************************************************************************)
C3_SplitPartition ==
    /\ Completed("split") =>
         /\ LET all == Range(inputs_train) \cup Range(inputs_test)
            IN /\ all = 1..inputs.n
               /\ Cardinality(all) = Len(inputs_train) + Len(inputs_test)
         /\ 10 * Len(inputs_test) >= 9 * inputs.n
         /\ 10 * (Len(inputs_test) - 1) < 9 * inputs.n
         /\ Len(inputs_train) = inputs.n - Len(inputs_test)
         /\ targets_train = inputs_train
         /\ targets_test = inputs_test
    /\ n_train_of(10 * RecordedTrainRows) = RecordedTrainRows

C3_Witness ==
    /\ Completed("split")
    /\ inputs.n % 10 # 0
    /\ Len(inputs_train) > 1
    /\ inputs_train[1] # 1
    /\ targets_train[1] = inputs_train[1]

(***************************************************************************)
(* C4: each classifier is fitted for exactly 10 epochs with batches of at  *)
(* most 100 rows; of the n training rows the first floor(0.75 n) are used  *)
(* for gradient updates and the rest for validation; the two sets are      *)
(* disjoint, lie inside the training subset, are the same for both         *)
(* models, and every epoch consumes each gradient-update row exactly once. *)
(***************************************************************************)
C4_FitEpochsAndValidationSplit ==
    /\ \A m \in Range(ModelNames) :
         LET f == model[m].fit
             n == Len(inputs_train)
         IN /\ model[m].epochs_done <= 10
            /\ (pc = "save" /\ m = LoopModel) \/ pc = "done" \/ (loop_i = 2 /\ m = "shallow")
                 => model[m].epochs_done = 10
            /\ f.started =>
                 /\ f.x.rows = inputs_train
                 /\ f.y = targets_train
                 /\ 4 * f.split_at <= 3 * n
                 /\ 4 * (f.split_at + 1) > 3 * n
                 /\ TrainRows(f) = [i \in 1..f.split_at |-> inputs_train[i]]
                 /\ ValRows(f) = [i \in 1..(n - f.split_at) |-> inputs_train[f.split_at + i]]
                 /\ Range(TrainRows(f)) \cap Range(ValRows(f)) = {}
                 /\ Range(TrainRows(f)) \cup Range(ValRows(f)) = Range(inputs_train)
                 /\ Cardinality(Range(TrainRows(f))) = f.split_at
            /\ model[m].epochs_done > 0 =>
                 /\ \A b \in 1..Len(f.epoch_batches) :
                        Len(f.epoch_batches[b]) \in 1..100
                 /\ SumLen(f.epoch_batches, Len(f.epoch_batches)) = f.split_at
                 /\ UNION {Range(f.epoch_batches[b]) : b \in 1..Len(f.epoch_batches)}
                       = Range(TrainRows(f))
                 /\ outcome # "error" =>
                       model[m].weights.updates
                          = model[m].epochs_done * Len(f.epoch_batches)
    /\ model["shallow"].fit.started /\ model["deep"].fit.started =>
         /\ model["shallow"].fit.split_at = model["deep"].fit.split_at
         /\ TrainRows(model["shallow"].fit) = TrainRows(model["deep"].fit)
         /\ ValRows(model["shallow"].fit) = ValRows(model["deep"].fit)
    /\ split_at_of(RecordedTrainRows) = 825000
    /\ RecordedTrainRows - split_at_of(RecordedTrainRows) = 275000

C4_Witness ==
    /\ outcome = "completed"
    /\ Len(model["deep"].fit.epoch_batches) >= 2
    /\ Len(model["deep"].fit.epoch_batches[2]) < Len(model["deep"].fit.epoch_batches[1])
    /\ model["deep"].fit.epoch_batches[1][1] # inputs_train[1]
    /\ Len(ValRows(model["deep"].fit)) > 0

(***************************************************************************)
(* C5: the two classifiers are trained independently.  Every step of the   *)
(* shallow model's fit and save leaves the deep model, the standardizer,   *)
(* the training subset and HIGGS_deep.h5 unchanged; every step of the deep *)
(* model's fit and save leaves the shallow model and HIGGS_shallow.h5      *)
(* unchanged; the shallow model is fully trained and saved before the      *)
(* deep model's fit begins; both fits get the same transformed inputs and  *)
(* the same targets.                                                       *)
(***************************************************************************)
InLoop == pc \in {"fit", "fit_epoch", "save"}

C5_IndependentTraining ==
    /\ [][InLoop /\ loop_i = 1 =>
            /\ model'["deep"] = model["deep"]
            /\ preprocessing_input' = preprocessing_input
            /\ inputs_train' = inputs_train
            /\ targets_train' = targets_train
            /\ fs'[FileNames[2]] = fs[FileNames[2]]
            /\ fs'[PICKLE] = fs[PICKLE]]_vars
    /\ [][InLoop /\ loop_i = 2 =>
            /\ model'["shallow"] = model["shallow"]
            /\ preprocessing_input' = preprocessing_input
            /\ inputs_train' = inputs_train
            /\ targets_train' = targets_train
            /\ fs'[FileNames[1]] = fs[FileNames[1]]
            /\ fs'[PICKLE] = fs[PICKLE]]_vars
    /\ [](model["deep"].fit.started \/ model["deep"].weights # InitialWeights =>
            /\ WrittenThisRun(FileNames[1])
            /\ model["shallow"].epochs_done = epochs
            /\ fs[FileNames[1]].weights = model["shallow"].weights
            /\ model["deep"].fit.x = model["shallow"].fit.x
            /\ model["deep"].fit.y = model["shallow"].fit.y)

C5_Witness ==
    /\ pc = "save"
    /\ loop_i = 2
    /\ model["deep"].weights.updates > 10
    /\ model["deep"].weights.updates = model["shallow"].weights.updates
    /\ model["deep"].fit.x = model["shallow"].fit.x
    /\ WrittenThisRun(FileNames[1])
    /\ fs[FileNames[2]].state = "complete"
    /\ ~fs[FileNames[2]].this_run

(***************************************************************************)
(* C6: the shallow network is one hidden layer of 1000 tanh units, the     *)
(* deep network five hidden layers of 300 relu units, each followed by one *)
(* 1-unit sigmoid output layer; the first layer's input width is the       *)
(* dataset's feature count d; every dense layer has (fan_in + 1) * units   *)
(* parameters, so for d = 28 the totals are 30,001 and 370,201.            *)
(***************************************************************************)
C6_Architectures ==
    Completed("build_deep") =>
       LET sh == model["shallow"].layers
           dp == model["deep"].layers
       IN /\ Len(sh) = 2
          /\ sh[1].units = 1000 /\ sh[1].activation = "tanh" /\ sh[1].fan_in = inputs.d
          /\ sh[2].units = 1 /\ sh[2].activation = "sigmoid" /\ sh[2].fan_in = 1000
          /\ Len(dp) = 6
          /\ \A k \in 1..5 :
               /\ dp[k].units = 300
               /\ dp[k].activation = "relu"
               /\ dp[k].fan_in = IF k = 1 THEN inputs.d ELSE 300
          /\ dp[6].units = 1 /\ dp[6].activation = "sigmoid" /\ dp[6].fan_in = 300
          /\ \A k \in 1..2 : sh[k].params = (sh[k].fan_in + 1) * sh[k].units
          /\ \A k \in 1..6 : dp[k].params = (dp[k].fan_in + 1) * dp[k].units
          /\ inputs.d = 28 =>
               /\ sh[1].params = 29000 /\ sh[2].params = 1001
               /\ count_params(model["shallow"]) = 30001
               /\ dp[1].params = 8700
               /\ \A k \in 2..5 : dp[k].params = 90300
               /\ dp[6].params = 301
               /\ count_params(model["deep"]) = 370201

C6_Witness ==
    /\ pc = "compile"
    /\ inputs.d = 28
    /\ count_params(model["deep"]) > count_params(model["shallow"])

(***************************************************************************)
(* C7 as stated: whenever a step fails -- the download included -- the run *)
(* stops at that step with an error outcome, and the files this run has    *)
(* already written stay as they are.                                       *)
(***************************************************************************)
DownloadFails ==
    pc = "download" /\ fs[DATASET].state = "absent" /\ fs'[DATASET].state # "complete"

StepRaises == pc \notin {"error", "done"} /\ pc' = "error"

StopsAtStep ==
    /\ pc' = "error"
    /\ outcome' = "error"
    /\ executed' = Append(executed, pc)
    /\ \A f \in FILES : fs[f].this_run => fs'[f] = fs[f]

C7_EveryFailureStopsTheRun ==
    [][DownloadFails \/ StepRaises => StopsAtStep]_vars

(***************************************************************************)
(* C7 amended: every run ends completed or in error, never both, and no    *)
(* step can block; a failure of any step after the download stops the run  *)
(* at that step, no later step runs, no step is retried, and the files the *)
(* run has already written stay as they are (a failure while the deep      *)
(* model trains leaves the pickle and HIGGS_shallow.h5 written and         *)
(* HIGGS_deep.h5 not written by this run).  A failed download does not     *)
(* stop the run: the run goes on to the load step, which raises when       *)
(* HIGGS.h5 is not a complete dataset file.                                *)
(***************************************************************************)
MaxSteps == 8 + Len(ModelNames) * (epochs + 2)

Occurrences(step) == Cardinality({i \in 1..Len(executed) : executed[i] = step})

C7_FailureStopsTheRun ==
    /\ [](/\ outcome \in {"running", "completed", "error"}
          /\ outcome = "completed" <=> pc = "done"
          /\ outcome = "error" <=> pc = "error"
          /\ Len(executed) <= MaxSteps
          \* no statement blocks: ENABLED Next, its disjuncts that raise first
          /\ pc \notin {"done", "error"} =>
               ENABLED (DownloadSkip \/ Download \/ LoadFail \/ StepFail
                          \/ PickleFail \/ SaveFail \/ FitFail \/ Next)
          /\ \A st \in Range(executed) :
               Occurrences(st) <= (CASE st = "fit_epoch" -> Len(ModelNames) * epochs
                                     [] st \in {"fit", "save"} -> Len(ModelNames)
                                     [] OTHER -> 1)
          /\ outcome = "error" /\ loop_i = 2
               /\ executed[Len(executed)] \in {"fit", "fit_epoch"} =>
                 /\ WrittenThisRun(PICKLE)
                 /\ WrittenThisRun(FileNames[1])
                 /\ ~fs[FileNames[2]].this_run)
    /\ [][StepRaises => StopsAtStep]_vars
    /\ [][(pc \in {"done", "error"}) => pc' = "download" /\ Len(executed') = 0]_vars
    /\ [][pc = "download" => pc' = "load" /\ outcome' = "running"]_vars
    /\ [][pc = "load" /\ fs[DATASET].state # "complete" => pc' = "error"]_vars

C7_Witness ==
    /\ outcome = "error"
    /\ loop_i = 2
    /\ executed[Len(executed)] = "fit_epoch"
    /\ model["deep"].weights.updates = 1
    /\ WrittenThisRun(FileNames[1])
    /\ fs[FileNames[2]].state = "complete"

(***************************************************************************)
(* C8 as stated: the stages run in the order of the overview: load, split, *)
(* fit and persist the standardizer, construct (and compile) the models,   *)
(* then train and persist each model.                                      *)
(***************************************************************************)
LoopBody == << "fit" >> \o [i \in 1..epochs |-> "fit_epoch"] \o << "save" >>

OverviewOrder ==
    << "load", "split", "scaler_fit", "pickle",
       "build_shallow", "build_deep", "compile" >> \o LoopBody \o LoopBody

NotebookOrder ==
    << "load", "build_shallow", "build_deep", "compile",
       "split", "scaler_fit", "pickle" >> \o LoopBody \o LoopBody

Follows(order) ==
    /\ Len(executed) <= Len(order) + 1
    /\ \A i \in 2..Len(executed) : executed[i] = order[i - 1]

C8_OverviewOrder == Follows(OverviewOrder)

(***************************************************************************)
(* C8 amended: the stages run in the order load, construct the shallow and *)
(* the deep model, compile both, split, fit the standardizer, persist it,  *)
(* then for the shallow and then the deep model: fit (10 epochs), save.    *)
(* The split and the standardizer fit come after the models are built and  *)
(* compiled and before any fit; a model is built and compiled before its   *)
(* fit starts.                                                             *)
(***************************************************************************)
C8_NotebookOrder ==
    /\ Len(executed) > 0 => executed[1] \in {"download", "download_skipped"}
    /\ Follows(NotebookOrder)
    /\ Completed("split") => \A m \in Range(ModelNames) :
                                 model[m].compiled /\ model[m].layers # << >>
    /\ \A m \in Range(ModelNames) :
         model[m].fit.started =>
            /\ model[m].compiled
            /\ model[m].layers # << >>
            /\ Completed("split")
            /\ Completed("scaler_fit")
            /\ Completed("pickle")

C8_Witness ==
    /\ pc = "done"
    /\ Len(executed) = Len(NotebookOrder) + 1

(***************************************************************************)
(* C9 as stated (second half): every run that reaches the load step finds  *)
(* a complete HIGGS.h5 there.                                              *)
(***************************************************************************)
C9_LoadFindsCompleteFile ==
    pc = "load" => fs[DATASET].state = "complete"

(***************************************************************************)
(* C9 amended: the download is attempted if and only if there is no        *)
(* HIGGS.h5 when the download step runs, and that step never changes an    *)
(* existing HIGGS.h5.  A run whose load step completes has read a complete *)
(* file with both tables; a run that reaches the load step with a missing, *)
(* partial or empty HIGGS.h5 fails there, and a partial or empty file is   *)
(* kept as it is by every later run.                                       *)
(***************************************************************************)
C9_DownloadOnlyWhenMissing ==
    /\ [][pc = "download" =>
            /\ (executed' = << "download" >>) <=> fs[DATASET].state = "absent"
            /\ (executed' = << "download_skipped" >>) <=> fs[DATASET].state # "absent"
            /\ fs[DATASET].state # "absent" => fs' = fs]_vars
    /\ [][fs[DATASET].state # "absent" =>
            fs'[DATASET].state = fs[DATASET].state]_vars
    /\ [][pc = "load" /\ fs[DATASET].state # "complete" => pc' = "error"]_vars
    /\ [](Completed("load") =>
            /\ fs[DATASET].state = "complete"
            /\ inputs = [loaded |-> TRUE, n |-> fs[DATASET].n, d |-> fs[DATASET].d]
            /\ targets = [loaded |-> TRUE, n |-> fs[DATASET].n])

C9_Witness ==
    /\ pc = "error"
    /\ executed = << "download_skipped", "load" >>
    /\ fs[DATASET].state = "partial"
    /\ ~fs[DATASET].this_run

(***************************************************************************)
(* C10: no held-out row is read after the split: the training subset holds *)
(* no held-out row, and the fitted standardizer, the gradient-update rows, *)
(* the validation rows, the weights and every complete artifact depend on  *)
(* rows of the training subset only.                                       *)
(***************************************************************************)
\* every row of S is a row of the training subset
TrainOnly(S) == S \subseteq Range(inputs_train)

C10_HeldOutUnseen ==
    Completed("split") =>
        /\ Unseen(Range(inputs_train))
        /\ TrainOnly(preprocessing_input.seen)
        /\ \A m \in Range(ModelNames) :
             /\ TrainOnly(Range(model[m].fit.x.rows))
             /\ TrainOnly(model[m].fit.x.scaler.seen)
             /\ TrainOnly(Range(TrainRows(model[m].fit)))
             /\ TrainOnly(Range(ValRows(model[m].fit)))
             /\ TrainOnly(model[m].weights.deps)
        /\ fs[PICKLE].state = "complete" => TrainOnly(fs[PICKLE].obj.seen)
        /\ \A i \in 1..Len(FileNames) :
             fs[FileNames[i]].state = "complete" =>
                TrainOnly(fs[FileNames[i]].weights.deps)

C10_Witness ==
    /\ outcome = "completed"
    /\ Len(inputs_test) > Len(inputs_train)
    /\ fs[FileNames[2]].weights.deps = Range(inputs_train)
    /\ fs[PICKLE].obj.seen = Range(inputs_train)
    /\ Len(inputs_train) > 1

====
